---- MODULE Spec2Model ----
(***************************************************************************)
(* Camera uniform derivation and synchronisation of the FPS camera plugin  *)
(* (src/src/graphics.rs): CameraUniforms, perspective_matrix_fov_vulkan    *)
(* and CameraGfx with its Plugin callbacks, the shared RwLock<Camera> and  *)
(* the host-visible uniform buffer.                                        *)
(*                                                                         *)
(* f32 values are modelled as exact rationals <<numerator, denominator>>   *)
(* (denominator > 0, lowest terms); rounding, infinities and NaN are not   *)
(* modelled, so the inputs are kept to extents with non-zero sides and     *)
(* fields of view inside (0, pi).                                          *)
(***************************************************************************)
EXTENDS Integers, Sequences, FiniteSets, TLC

VARIABLES
    camera,                  \* the value inside Arc<RwLock<Camera>>
    poisoned,                \* the RwLock is poisoned (a writer panicked)
    lock,                    \* the guard the CameraGfx thread holds on camera
    others,                  \* the guard the other threads hold on camera
    constructed,             \* a CameraGfx instance exists
    camera_uniforms,         \* CameraGfx.camera_uniforms (CPU side)
    gpu,                     \* the CameraUniforms in uniforms_buffer's mapped memory
    camera_position_wspace,  \* CameraGfx.camera_position_wspace
    render_params,           \* CameraGfx.render_params
    params,                  \* the renderer's Params block handed to update
    pc,                      \* position of the CameraGfx thread inside an operation
    op,                      \* the operation running, or the last one called
    result,                  \* how the last operation ended
    update_ret,              \* the bool inside the last Ok(..) of update
    inv_ret,                 \* the last value returned by a direct inv_projection()
    extent_arg,              \* the extent argument of the running / last rebuild
    prev_uniforms,           \* camera_uniforms as it was before the latest update
    frame,                   \* host frame position: update pending or gpu_update pending
    resized,                 \* rebuild rewrote the buffer since the last gpu_update
    calls,                   \* number of calls the host has made so far
    changes                  \* number of changes made from outside the calls

vars == <<camera, poisoned, lock, others, constructed, camera_uniforms, gpu,
          camera_position_wspace, render_params, params, pc, op, result,
          update_ret, inv_ret, extent_arg, prev_uniforms, frame, resized,
          calls, changes>>

----------------------------------------------------------------------------
(* Exact rational arithmetic standing for f32 arithmetic. *)

RECURSIVE GCD(_, _)
GCD(a, b) == IF b = 0 THEN a ELSE GCD(b, a % b)

Abs(x) == IF x < 0 THEN -x ELSE x

Norm(n, d) ==
    LET g == GCD(Abs(n), Abs(d))
        s == IF d < 0 THEN -1 ELSE 1
    IN  <<(s * n) \div g, (s * d) \div g>>

R(n) == <<n, 1>>
RAdd(a, b) == Norm(a[1] * b[2] + b[1] * a[2], a[2] * b[2])
RNeg(a) == <<-a[1], a[2]>>
RSub(a, b) == RAdd(a, RNeg(b))
RMul(a, b) == IF a[1] = 0 \/ b[1] = 0 THEN <<0, 1>>
              ELSE LET x == Norm(a[1], b[2])
                       y == Norm(b[1], a[2])
                   IN  <<x[1] * y[1], x[2] * y[2]>>
RDiv(a, b) == RMul(a, Norm(b[2], b[1]))

----------------------------------------------------------------------------
(* siege_math: Vec4 and Mat4 (row-major, rows and columns 1..4). *)

Vec4(x, y, z, w) == <<x, y, z, w>>
Vec4Zero == <<R(0), R(0), R(0), R(0)>>

Mat4Identity ==
    << <<R(1), R(0), R(0), R(0)>>,
       <<R(0), R(1), R(0), R(0)>>,
       <<R(0), R(0), R(1), R(0)>>,
       <<R(0), R(0), R(0), R(1)>> >>

Sum4(f) == RAdd(RAdd(f[1], f[2]), RAdd(f[3], f[4]))

\* &Mat4 * &Mat4
MatMul(a, b) ==
    [i \in 1..4 |-> [j \in 1..4 |->
        Sum4([k \in 1..4 |-> RMul(a[i][k], b[k][j])])]]

\* &Mat4 * &Vec4
MatVec(a, v) ==
    [i \in 1..4 |-> Sum4([k \in 1..4 |-> RMul(a[i][k], v[k])])]

Others(i) == IF i = 1 THEN <<2, 3, 4>>
             ELSE IF i = 2 THEN <<1, 3, 4>>
             ELSE IF i = 3 THEN <<1, 2, 4>>
             ELSE <<1, 2, 3>>

Det3(m, rs, cs) ==
    LET e(i, j) == m[rs[i]][cs[j]]
        t(a, b, c) == RMul(e(1, a), RMul(e(2, b), e(3, c)))
    IN  RSub(RAdd(t(1, 2, 3), RAdd(t(2, 3, 1), t(3, 1, 2))),
             RAdd(t(3, 2, 1), RAdd(t(2, 1, 3), t(1, 3, 2))))

Cofactor(m, i, j) ==
    LET d == Det3(m, Others(i), Others(j))
    IN  IF (i + j) % 2 = 0 THEN d ELSE RNeg(d)

Det4(m) == Sum4([j \in 1..4 |-> RMul(m[1][j], Cofactor(m, 1, j))])

\* Mat4::inverse(): None for a singular matrix
Mat4Inverse(m) ==
    LET det == Det4(m)
    IN  IF det[1] = 0
        THEN [some |-> FALSE, value |-> Mat4Identity]
        ELSE [some |-> TRUE,
              value |-> [i \in 1..4 |-> [j \in 1..4 |->
                            RDiv(Cofactor(m, j, i), det)]]]

----------------------------------------------------------------------------
(* Input domains. *)

\* camera::NEAR_PLANE and camera::FAR_PLANE (0.1 and 1000.0)
NEAR_PLANE == <<1, 10>>
FAR_PLANE == <<1000, 1>>

\* Angles, named by their value in radians; Tan gives tan(fovx / 2).
Fovxs == {"pi/2", "2*atan(1/2)"}
TanHalf(fovx_radians) ==
    CASE fovx_radians = "pi/2" -> <<1, 1>>
      [] fovx_radians = "2*atan(1/2)" -> <<1, 2>>
      [] OTHER -> <<0, 1>>

\* Angle::as_radians(): the angle is stored in radians
as_radians(angle) == angle

Extent2D(w, h) == [width |-> w, height |-> h]
Extents == {Extent2D(800, 600), Extent2D(1280, 720)}

ViewTurned ==
    << <<R(0), R(0), R(1), R(2)>>,
       <<R(0), R(1), R(0), R(0)>>,
       <<R(-1), R(0), R(0), R(3)>>,
       <<R(0), R(0), R(0), R(1)>> >>
ViewMatrices == {Mat4Identity, ViewTurned}

\* super::Camera, the fields graphics.rs reads and writes
Cameras == [view_matrix : ViewMatrices, fovx : Fovxs, extent : Extents]

Positions == {Vec4(R(0), R(0), R(0), R(1)), Vec4(R(1), R(2), R(3), R(1))}

DefaultRenderParams ==
    [bloom_strength |-> <<3, 5>>, bloom_cliff |-> <<7, 20>>, blur_level |-> R(0)]
RenderParamValues ==
    {DefaultRenderParams,
     [bloom_strength |-> <<1, 2>>, bloom_cliff |-> <<1, 4>>, blur_level |-> R(1)]}

\* light_dir_1 and light_dir_2, to four decimal places
light_dir_1 == Vec4(<<5774, 10000>>, <<-5774, 10000>>, <<5774, 10000>>, R(0))
light_dir_2 == Vec4(<<-8018, 10000>>, <<-2673, 10000>>, <<-5345, 10000>>, R(0))

----------------------------------------------------------------------------
(* CameraUniforms *)

perspective_matrix_fov_vulkan_flipped(fovx_radians, aspect_ratio, near, far) ==
    LET d == RDiv(R(1), TanHalf(fovx_radians))
        n == near
        f == far
    IN  << <<d, R(0), R(0), R(0)>>,
           <<R(0), RDiv(d, aspect_ratio), R(0), R(0)>>,
           <<R(0), R(0), RDiv(RNeg(f), RSub(n, f)), RDiv(RMul(n, f), RSub(n, f))>>,
           <<R(0), R(0), R(1), R(0)>> >>

perspective_matrix_fov_vulkan(fovx_radians, aspect_ratio, near, far) ==
    LET d == RDiv(R(1), TanHalf(fovx_radians))
        n == near
        f == far
    IN  << <<d, R(0), R(0), R(0)>>,
           <<R(0), RMul(d, aspect_ratio), R(0), R(0)>>,
           <<R(0), R(0), RDiv(RNeg(f), RSub(n, f)), RDiv(RMul(n, f), RSub(n, f))>>,
           <<R(0), R(0), R(1), R(0)>> >>

\* update that takes the aspect ratio from the extent stored before the call
CameraUniforms_update_old_extent(self, cam, position_wspace) ==
    LET s1 == [self EXCEPT !.camera_position_wspace = position_wspace,
                           !.fovx = as_radians(cam.fovx),
                           !.view_matrix = cam.view_matrix,
                           !.extent = cam.extent]
        ar == RDiv(R(self.extent.width), R(self.extent.height))
        s2 == [s1 EXCEPT !.projection_matrix =
                       perspective_matrix_fov_vulkan(s1.fovx, ar, NEAR_PLANE, FAR_PLANE)]
    IN  [s2 EXCEPT !.projection_x_view_matrix =
                       MatMul(s2.projection_matrix, s2.view_matrix)]

\* update that stores the new view matrix but keeps the old product
CameraUniforms_update_stale_product(self, cam, position_wspace) ==
    LET s1 == [self EXCEPT !.camera_position_wspace = position_wspace,
                           !.fovx = as_radians(cam.fovx),
                           !.view_matrix = cam.view_matrix,
                           !.extent = cam.extent]
        ar == RDiv(R(s1.extent.width), R(s1.extent.height))
    IN  [s1 EXCEPT !.projection_matrix =
                       perspective_matrix_fov_vulkan(s1.fovx, ar, NEAR_PLANE, FAR_PLANE)]

\* update that also resets the tone scalars, as a struct rebuilt from zero would
CameraUniforms_update_resets_tone(self, cam, position_wspace) ==
    LET s1 == [self EXCEPT !.camera_position_wspace = position_wspace,
                           !.fovx = as_radians(cam.fovx),
                           !.view_matrix = cam.view_matrix,
                           !.extent = cam.extent,
                           !.ambient = R(0),
                           !.white_level = R(0)]
        ar == RDiv(R(s1.extent.width), R(s1.extent.height))
        s2 == [s1 EXCEPT !.projection_matrix =
                       perspective_matrix_fov_vulkan(s1.fovx, ar, NEAR_PLANE, FAR_PLANE)]
    IN  [s2 EXCEPT !.projection_x_view_matrix =
                       MatMul(s2.projection_matrix, s2.view_matrix)]

CameraUniforms_update(self, cam, position_wspace) ==
    LET s1 == [self EXCEPT !.camera_position_wspace = position_wspace,
                           !.fovx = as_radians(cam.fovx),
                           !.view_matrix = cam.view_matrix,
                           !.extent = cam.extent]
        ar == RDiv(R(s1.extent.width), R(s1.extent.height))
        s2 == [s1 EXCEPT !.projection_matrix =
                       perspective_matrix_fov_vulkan(s1.fovx, ar, NEAR_PLANE, FAR_PLANE)]
    IN  [s2 EXCEPT !.projection_x_view_matrix =
                       MatMul(s2.projection_matrix, s2.view_matrix)]

\* the struct literal of CameraUniforms::new, before its update call
DefaultUniforms ==
    [projection_x_view_matrix |-> Mat4Identity,
     view_matrix |-> Mat4Identity,
     projection_matrix |-> Mat4Identity,
     camera_position_wspace |-> Vec4Zero,
     ambient |-> R(1),
     white_level |-> <<2, 25>>,
     extent |-> Extent2D(1280, 1024),
     fovx |-> "0"]

CameraUniforms_new(cam) == CameraUniforms_update(DefaultUniforms, cam, Vec4Zero)

----------------------------------------------------------------------------
(* CameraGfx *)

\* the host makes at most this many calls in a run
MaxCalls == 4

\* the host and the other threads make at most this many changes in a run
MaxChanges == 1

DefaultParams ==
    [dlight_directions |-> <<Vec4Zero, Vec4Zero>>,
     inv_projection |-> Mat4Identity,
     bloom_strength |-> R(0),
     bloom_cliff |-> R(0),
     blur_level |-> R(0)]

Init ==
    /\ camera \in {c \in Cameras : c.view_matrix = Mat4Identity /\ c.fovx = "pi/2"}
    /\ poisoned = FALSE
    /\ lock = "none"
    /\ others = "none"
    /\ constructed = FALSE
    /\ camera_uniforms = DefaultUniforms
    /\ gpu = DefaultUniforms
    /\ camera_position_wspace = Vec4Zero
    /\ render_params = DefaultRenderParams
    /\ params = DefaultParams
    /\ pc = "idle"
    /\ op = "none"
    /\ result = "none"
    /\ update_ret = FALSE
    /\ inv_ret = Mat4Identity
    /\ extent_arg = Extent2D(1280, 1024)
    /\ prev_uniforms = DefaultUniforms
    /\ frame = "start"
    /\ resized = FALSE
    /\ calls = 0
    /\ changes = 0

\* the fields of the CameraGfx instance and of the caller's objects
gfxVars == <<constructed, camera_uniforms, gpu, camera_position_wspace,
             render_params, params, update_ret, inv_ret, extent_arg,
             prev_uniforms, frame, resized>>

\* .unwrap() on a poisoned lock, a missing mapping or a singular matrix
Panic(operation, why) ==
    /\ pc' = "panicked"
    /\ op' = operation
    /\ result' = why
    /\ lock' = "none"

\* CameraGfx::new, line 128: camera.read().unwrap()
NewBegin ==
    /\ pc = "idle"
    /\ others # "write"
    /\ calls < MaxCalls
    /\ calls' = calls + 1
    /\ ~constructed
    /\ IF poisoned
       THEN Panic("new", "panic_poison")
       ELSE /\ lock' = "read"
            /\ pc' = "new_rlocked"
            /\ op' = "new"
            /\ result' = "pending"
    /\ UNCHANGED <<camera, poisoned, others, gfxVars, changes>>

\* CameraGfx::new, lines 129-130: the local camera_uniforms is derived under
\* the read guard, and the guard is dropped
NewCompute ==
    /\ pc = "new_rlocked"
    /\ camera_uniforms' = CameraUniforms_new(camera)
    /\ lock' = "none"
    /\ pc' = "new_unlocked"
    /\ UNCHANGED <<camera, poisoned, others, op, result, constructed, gpu,
                   camera_position_wspace, render_params, params, update_ret,
                   inv_ret, extent_arg, prev_uniforms, frame, resized, calls,
                   changes>>

\* new that goes on after a failed first write of the buffer
NewFinish_unchecked_write(fail) ==
    /\ pc = "new_unlocked"
    /\ pc' = "idle"
    /\ IF fail \in {"none", "write"}
       THEN /\ constructed' = TRUE
            /\ gpu' = IF fail = "none" THEN camera_uniforms ELSE gpu
            /\ camera_position_wspace' = Vec4(R(0), R(0), R(0), R(1))
            /\ render_params' = DefaultRenderParams
            /\ prev_uniforms' = camera_uniforms
            /\ result' = "ok"
            /\ UNCHANGED camera_uniforms
       ELSE /\ result' = "err_" \o fail
            /\ camera_uniforms' = DefaultUniforms
            /\ UNCHANGED <<constructed, gpu, camera_position_wspace,
                           render_params, prev_uniforms>>
    /\ UNCHANGED <<camera, poisoned, others, lock, op, params, update_ret, inv_ret,
                   extent_arg, frame, resized, calls, changes>>

\* CameraGfx::new, lines 132-206; fail names the first external call that
\* fails: create_host_visible_buffer, write_one or create_descriptor_set.
\* On a failure the locals are dropped and no CameraGfx is built.
NewFinish(fail) ==
    /\ pc = "new_unlocked"
    /\ pc' = "idle"
    /\ IF fail = "none"
       THEN /\ constructed' = TRUE
            /\ gpu' = camera_uniforms
            /\ camera_position_wspace' = Vec4(R(0), R(0), R(0), R(1))
            /\ render_params' = DefaultRenderParams
            /\ prev_uniforms' = camera_uniforms
            /\ result' = "ok"
            /\ UNCHANGED camera_uniforms
       ELSE /\ result' = "err_" \o fail
            /\ camera_uniforms' = DefaultUniforms
            /\ UNCHANGED <<constructed, gpu, camera_position_wspace,
                           render_params, prev_uniforms>>
    /\ UNCHANGED <<camera, poisoned, others, lock, op, params, update_ret, inv_ret,
                   extent_arg, frame, resized, calls, changes>>

\* inv_projection reading the CPU-side copy instead of the mapped buffer
inv_projection_cpu(ptrOk) ==
    IF ~ptrOk
    THEN [status |-> "panic_ptr", value |-> Mat4Identity]
    ELSE LET inv == Mat4Inverse(camera_uniforms'.projection_matrix)
         IN  IF inv.some
             THEN [status |-> "ok", value |-> inv.value]
             ELSE [status |-> "panic_singular", value |-> Mat4Identity]

\* CameraGfx::inv_projection: as_ptr().unwrap(), then inverse().unwrap()
inv_projection(ptrOk) ==
    IF ~ptrOk
    THEN [status |-> "panic_ptr", value |-> Mat4Identity]
    ELSE LET inv == Mat4Inverse(gpu.projection_matrix)
         IN  IF inv.some
             THEN [status |-> "ok", value |-> inv.value]
             ELSE [status |-> "panic_singular", value |-> Mat4Identity]

\* a direct call of the public inv_projection()
InvProjectionCall(ptrOk) ==
    /\ pc = "idle"
    /\ calls < MaxCalls
    /\ calls' = calls + 1
    /\ UNCHANGED changes
    /\ constructed
    /\ UNCHANGED <<camera, poisoned, others, constructed, camera_uniforms, gpu,
                   camera_position_wspace, render_params, params, update_ret,
                   extent_arg, prev_uniforms, frame, resized>>
    /\ LET r == inv_projection(ptrOk)
       IN  IF r.status = "ok"
           THEN /\ inv_ret' = r.value
                /\ op' = "inv_projection"
                /\ result' = "ok"
                /\ UNCHANGED <<pc, lock>>
           ELSE /\ Panic("inv_projection", r.status)
                /\ UNCHANGED inv_ret

\* the three record_* callbacks: empty bodies
RecordGeometry ==
    /\ pc = "idle"
    /\ constructed
    /\ UNCHANGED vars

RecordTransparent ==
    /\ pc = "idle"
    /\ constructed
    /\ UNCHANGED vars

RecordUi ==
    /\ pc = "idle"
    /\ constructed
    /\ UNCHANGED vars

\* update that reads the camera without taking the read lock
UpdateBegin_unlocked ==
    /\ pc = "idle"
    /\ calls < MaxCalls
    /\ calls' = calls + 1
    /\ UNCHANGED changes
    /\ constructed
    /\ IF poisoned
       THEN Panic("update", "panic_poison")
       ELSE /\ lock' = "none"
            /\ pc' = "update_rlocked"
            /\ op' = "update"
            /\ result' = "pending"
    /\ UNCHANGED <<camera, poisoned, others, gfxVars>>

\* Plugin::update, line 229: self.camera.read().unwrap(); read() waits while
\* another thread holds the write guard
UpdateBegin ==
    /\ pc = "idle"
    /\ others # "write"
    /\ calls < MaxCalls
    /\ calls' = calls + 1
    /\ UNCHANGED changes
    /\ constructed
    /\ IF poisoned
       THEN Panic("update", "panic_poison")
       ELSE /\ lock' = "read"
            /\ pc' = "update_rlocked"
            /\ op' = "update"
            /\ result' = "pending"
    /\ UNCHANGED <<camera, poisoned, others, gfxVars>>

\* update that asks for a rebuild
UpdateBody_wants_rebuild(ptrOk) ==
    /\ pc = "update_rlocked"
    /\ prev_uniforms' = camera_uniforms
    /\ camera_uniforms' =
           CameraUniforms_update(camera_uniforms, camera, camera_position_wspace)
    /\ UNCHANGED <<camera, poisoned, others, constructed, gpu, camera_position_wspace,
                   render_params, inv_ret, extent_arg, resized, calls, changes>>
    /\ LET lights == <<MatVec(camera_uniforms'.view_matrix, light_dir_1),
                       MatVec(camera_uniforms'.view_matrix, light_dir_2)>>
           r == inv_projection(ptrOk)
       IN  IF r.status = "ok"
           THEN /\ params' = [dlight_directions |-> lights,
                              inv_projection |-> r.value,
                              bloom_strength |-> render_params.bloom_strength,
                              bloom_cliff |-> render_params.bloom_cliff,
                              blur_level |-> render_params.blur_level]
                /\ update_ret' = TRUE
                /\ frame' = "updated"
                /\ lock' = "none"
                /\ pc' = "idle"
                /\ op' = "update"
                /\ result' = "ok"
           ELSE /\ params' = [params EXCEPT !.dlight_directions = lights]
                /\ Panic("update", r.status)
                /\ UNCHANGED <<update_ret, frame>>

\* update that also writes the fresh uniforms through to the mapped buffer
UpdateBody_writes_gpu(ptrOk) ==
    /\ pc = "update_rlocked"
    /\ prev_uniforms' = camera_uniforms
    /\ camera_uniforms' =
           CameraUniforms_update(camera_uniforms, camera, camera_position_wspace)
    /\ gpu' = camera_uniforms'
    /\ UNCHANGED <<camera, poisoned, others, constructed, camera_position_wspace,
                   render_params, inv_ret, extent_arg, resized, calls, changes>>
    /\ LET lights == <<MatVec(camera_uniforms'.view_matrix, light_dir_1),
                       MatVec(camera_uniforms'.view_matrix, light_dir_2)>>
           r == inv_projection(ptrOk)
       IN  IF r.status = "ok"
           THEN /\ params' = [dlight_directions |-> lights,
                              inv_projection |-> r.value,
                              bloom_strength |-> render_params.bloom_strength,
                              bloom_cliff |-> render_params.bloom_cliff,
                              blur_level |-> render_params.blur_level]
                /\ update_ret' = FALSE
                /\ frame' = "updated"
                /\ lock' = "none"
                /\ pc' = "idle"
                /\ op' = "update"
                /\ result' = "ok"
           ELSE /\ params' = [params EXCEPT !.dlight_directions = lights]
                /\ Panic("update", r.status)
                /\ UNCHANGED <<update_ret, frame>>

\* Plugin::update, lines 230-241: the uniforms are recomputed under the read
\* guard, the guard is dropped, then the Params block is filled
UpdateBody(ptrOk) ==
    /\ pc = "update_rlocked"
    /\ prev_uniforms' = camera_uniforms
    /\ camera_uniforms' =
           CameraUniforms_update(camera_uniforms, camera, camera_position_wspace)
    /\ UNCHANGED <<camera, poisoned, others, constructed, gpu, camera_position_wspace,
                   render_params, inv_ret, extent_arg, resized, calls, changes>>
    /\ LET lights == <<MatVec(camera_uniforms'.view_matrix, light_dir_1),
                       MatVec(camera_uniforms'.view_matrix, light_dir_2)>>
           r == inv_projection(ptrOk)
       IN  IF r.status = "ok"
           THEN /\ params' = [dlight_directions |-> lights,
                              inv_projection |-> r.value,
                              bloom_strength |-> render_params.bloom_strength,
                              bloom_cliff |-> render_params.bloom_cliff,
                              blur_level |-> render_params.blur_level]
                /\ update_ret' = FALSE
                /\ frame' = "updated"
                /\ lock' = "none"
                /\ pc' = "idle"
                /\ op' = "update"
                /\ result' = "ok"
           ELSE /\ params' = [params EXCEPT !.dlight_directions = lights]
                /\ Panic("update", r.status)
                /\ UNCHANGED <<update_ret, frame>>

\* gpu_update that copies only the first field of the struct
GpuUpdate_first_field(writeOk) ==
    /\ pc = "idle"
    /\ calls < MaxCalls
    /\ calls' = calls + 1
    /\ UNCHANGED changes
    /\ constructed
    /\ op' = "gpu_update"
    /\ IF writeOk
       THEN /\ gpu' = [gpu EXCEPT !.projection_x_view_matrix =
                                      camera_uniforms.projection_x_view_matrix]
            /\ frame' = "start"
            /\ resized' = FALSE
            /\ result' = "ok"
       ELSE /\ result' = "err_write"
            /\ UNCHANGED <<gpu, frame, resized>>
    /\ UNCHANGED <<camera, poisoned, others, lock, pc, constructed, camera_uniforms,
                   camera_position_wspace, render_params, params, update_ret,
                   inv_ret, extent_arg, prev_uniforms>>

\* gpu_update that reports success without copying camera_uniforms
GpuUpdate_no_write(writeOk) ==
    /\ pc = "idle"
    /\ calls < MaxCalls
    /\ calls' = calls + 1
    /\ UNCHANGED changes
    /\ constructed
    /\ op' = "gpu_update"
    /\ IF writeOk
       THEN /\ gpu' = gpu
            /\ frame' = "start"
            /\ resized' = FALSE
            /\ result' = "ok"
       ELSE /\ result' = "err_write"
            /\ UNCHANGED <<gpu, frame, resized>>
    /\ UNCHANGED <<camera, poisoned, others, lock, pc, constructed, camera_uniforms,
                   camera_position_wspace, render_params, params, update_ret,
                   inv_ret, extent_arg, prev_uniforms>>

\* Plugin::gpu_update: write_one copies camera_uniforms into the buffer, or fails
GpuUpdate(writeOk) ==
    /\ pc = "idle"
    /\ calls < MaxCalls
    /\ calls' = calls + 1
    /\ UNCHANGED changes
    /\ constructed
    /\ op' = "gpu_update"
    /\ IF writeOk
       THEN /\ gpu' = camera_uniforms
            /\ frame' = "start"
            /\ resized' = FALSE
            /\ result' = "ok"
       ELSE /\ result' = "err_write"
            /\ UNCHANGED <<gpu, frame, resized>>
    /\ UNCHANGED <<camera, poisoned, others, lock, pc, constructed, camera_uniforms,
                   camera_position_wspace, render_params, params, update_ret,
                   inv_ret, extent_arg, prev_uniforms>>

\* Plugin::rebuild, line 253: self.camera.write().unwrap(); write() waits
\* while another thread holds any guard
RebuildBegin(extent) ==
    /\ pc = "idle"
    /\ others = "none"
    /\ calls < MaxCalls
    /\ calls' = calls + 1
    /\ UNCHANGED changes
    /\ constructed
    /\ extent_arg' = extent
    /\ IF poisoned
       THEN Panic("rebuild", "panic_poison")
       ELSE /\ lock' = "write"
            /\ pc' = "rebuild_wlocked"
            /\ op' = "rebuild"
            /\ result' = "pending"
    /\ UNCHANGED <<camera, poisoned, others, constructed, camera_uniforms, gpu,
                   camera_position_wspace, render_params, params, update_ret,
                   inv_ret, prev_uniforms, frame, resized>>

\* rebuild that recomputes the mapped uniforms inside the write-locked block
RebuildStore_and_update ==
    /\ pc = "rebuild_wlocked"
    /\ camera' = [camera EXCEPT !.extent = extent_arg]
    /\ gpu' = CameraUniforms_update(gpu, camera', camera_position_wspace)
    /\ lock' = "none"
    /\ pc' = "rebuild_unlocked"
    /\ UNCHANGED <<poisoned, others, op, result, constructed, camera_uniforms,
                   camera_position_wspace, render_params, params, update_ret,
                   inv_ret, extent_arg, prev_uniforms, frame, resized, calls,
                   changes>>

\* rebuild that keeps the write guard alive across the rest of the function
RebuildStore_keeps_guard ==
    /\ pc = "rebuild_wlocked"
    /\ camera' = [camera EXCEPT !.extent = extent_arg]
    /\ lock' = "write"
    /\ pc' = "rebuild_unlocked"
    /\ UNCHANGED <<poisoned, others, op, result, gfxVars, calls, changes>>

\* Plugin::rebuild, lines 254-255: store the extent, drop the write guard
RebuildStore ==
    /\ pc = "rebuild_wlocked"
    /\ camera' = [camera EXCEPT !.extent = extent_arg]
    /\ lock' = "none"
    /\ pc' = "rebuild_unlocked"
    /\ UNCHANGED <<poisoned, others, op, result, gfxVars, calls, changes>>

\* Plugin::rebuild, lines 258-260: as_ptr().unwrap(), then camera.read().unwrap()
RebuildRelock(ptrOk) ==
    /\ pc = "rebuild_unlocked"
    /\ ptrOk => others # "write"
    /\ IF ~ptrOk
       THEN Panic("rebuild", "panic_ptr")
       ELSE IF poisoned
       THEN Panic("rebuild", "panic_poison")
       ELSE /\ lock' = "read"
            /\ pc' = "rebuild_rlocked"
            /\ UNCHANGED <<op, result>>
    /\ UNCHANGED <<camera, poisoned, others, gfxVars, calls, changes>>

\* rebuild that stores the extent and returns without recomputing anything
RebuildFinish_no_recompute ==
    /\ pc = "rebuild_rlocked"
    /\ lock' = "none"
    /\ pc' = "idle"
    /\ result' = "ok"
    /\ resized' = TRUE
    /\ UNCHANGED <<camera, poisoned, others, op, constructed, gpu,
                   camera_uniforms, camera_position_wspace, render_params,
                   params, update_ret, inv_ret, extent_arg, prev_uniforms,
                   frame, calls, changes>>

\* rebuild that recomputes the CPU-side copy along with the mapped buffer
RebuildFinish_both ==
    /\ pc = "rebuild_rlocked"
    /\ gpu' = CameraUniforms_update(gpu, camera, camera_position_wspace)
    /\ camera_uniforms' =
           CameraUniforms_update(camera_uniforms, camera, camera_position_wspace)
    /\ lock' = "none"
    /\ pc' = "idle"
    /\ result' = "ok"
    /\ resized' = TRUE
    /\ UNCHANGED <<camera, poisoned, others, op, constructed,
                   camera_position_wspace, render_params, params, update_ret,
                   inv_ret, extent_arg, prev_uniforms, frame, calls, changes>>

\* rebuild that recomputes the CPU-side copy and leaves the buffer alone
RebuildFinish_cpu ==
    /\ pc = "rebuild_rlocked"
    /\ camera_uniforms' =
           CameraUniforms_update(camera_uniforms, camera, camera_position_wspace)
    /\ lock' = "none"
    /\ pc' = "idle"
    /\ result' = "ok"
    /\ resized' = TRUE
    /\ UNCHANGED <<camera, poisoned, others, op, constructed, gpu,
                   camera_position_wspace, render_params, params, update_ret,
                   inv_ret, extent_arg, prev_uniforms, frame, calls, changes>>

\* Plugin::rebuild, lines 261-264: p.update(&c, ..) on the mapped buffer under
\* the read guard, then the guard is dropped
RebuildFinish ==
    /\ pc = "rebuild_rlocked"
    /\ gpu' = CameraUniforms_update(gpu, camera, camera_position_wspace)
    /\ lock' = "none"
    /\ pc' = "idle"
    /\ result' = "ok"
    /\ resized' = TRUE
    /\ UNCHANGED <<camera, poisoned, others, op, constructed, camera_uniforms,
                   camera_position_wspace, render_params, params, update_ret,
                   inv_ret, extent_arg, prev_uniforms, frame, calls, changes>>

----------------------------------------------------------------------------
(* The host and the other threads. *)

\* the host assigns the public field camera_position_wspace between calls
SetPosition(p) ==
    /\ pc = "idle"
    /\ constructed
    /\ p # camera_position_wspace
    /\ camera_position_wspace' = p
    /\ changes < MaxChanges
    /\ changes' = changes + 1
    /\ UNCHANGED <<calls, camera, poisoned, others, lock, constructed, camera_uniforms, gpu,
                   render_params, params, pc, op, result, update_ret, inv_ret,
                   extent_arg, prev_uniforms, frame, resized>>

\* the host assigns the public field render_params between calls
SetRenderParams(rp) ==
    /\ pc = "idle"
    /\ constructed
    /\ rp # render_params
    /\ render_params' = rp
    /\ changes < MaxChanges
    /\ changes' = changes + 1
    /\ UNCHANGED <<calls, camera, poisoned, others, lock, constructed, camera_uniforms, gpu,
                   camera_position_wspace, params, pc, op, result, update_ret,
                   inv_ret, extent_arg, prev_uniforms, frame, resized>>

\* another thread takes the write lock, moves or re-lenses the camera and
\* drops the lock; it gets the lock only while CameraGfx holds no guard
CameraWrite(v, f) ==
    /\ pc # "panicked"
    /\ lock = "none"
    /\ others = "none"
    /\ ~poisoned
    /\ <<v, f>> # <<camera.view_matrix, camera.fovx>>
    /\ camera' = [camera EXCEPT !.view_matrix = v, !.fovx = f]
    /\ changes < MaxChanges
    /\ changes' = changes + 1
    /\ UNCHANGED <<calls, poisoned, others, lock, pc, op, result, gfxVars>>

\* another thread panics while it holds the write lock: the lock is poisoned
WriterPanics ==
    /\ pc # "panicked"
    /\ lock = "none"
    /\ others = "none"
    /\ ~poisoned
    /\ poisoned' = TRUE
    /\ changes < MaxChanges
    /\ changes' = changes + 1
    /\ UNCHANGED <<calls, camera, lock, others, pc, op, result, gfxVars>>

\* another thread takes a guard on the camera and keeps it for a while: a
\* read guard while CameraGfx holds no write guard, a write guard while
\* CameraGfx holds none
OtherAcquire(kind) ==
    /\ pc # "panicked"
    /\ others = "none"
    /\ ~poisoned
    /\ IF kind = "read" THEN lock # "write" ELSE lock = "none"
    /\ others' = kind
    /\ changes < MaxChanges
    /\ changes' = changes + 1
    /\ UNCHANGED <<calls, camera, poisoned, lock, pc, op, result, gfxVars>>

\* the other thread drops its guard
OtherRelease ==
    /\ others # "none"
    /\ others' = "none"
    /\ UNCHANGED <<calls, changes, camera, poisoned, lock, pc, op, result,
                   gfxVars>>

Environment ==
    \/ \E p \in Positions : SetPosition(p)
    \/ \E rp \in RenderParamValues : SetRenderParams(rp)
    \/ \E v \in ViewMatrices, f \in Fovxs : CameraWrite(v, f)
    \/ WriterPanics

Failures == {"none", "alloc", "write", "desc"}

Next ==
    \/ NewBegin
    \/ NewCompute
    \/ \E fail \in Failures : NewFinish(fail)
    \/ \E ptrOk \in BOOLEAN : InvProjectionCall(ptrOk)
    \/ RecordGeometry
    \/ RecordTransparent
    \/ RecordUi
    \/ UpdateBegin
    \/ \E ptrOk \in BOOLEAN : UpdateBody(ptrOk)
    \/ \E writeOk \in BOOLEAN : GpuUpdate(writeOk)
    \/ \E extent \in Extents : RebuildBegin(extent)
    \/ RebuildStore
    \/ \E ptrOk \in BOOLEAN : RebuildRelock(ptrOk)
    \/ RebuildFinish
    \/ Environment

Spec == Init /\ [][Next]_vars

\* frames only: update, then gpu_update until it succeeds; no rebuild
NextFrames ==
    \/ NewBegin
    \/ NewCompute
    \/ \E fail \in Failures : NewFinish(fail)
    \/ \E ptrOk \in BOOLEAN : InvProjectionCall(ptrOk)
    \/ RecordGeometry
    \/ RecordTransparent
    \/ RecordUi
    \/ frame = "start" /\ UpdateBegin
    \/ \E ptrOk \in BOOLEAN : UpdateBody(ptrOk)
    \/ frame = "updated" /\ \E writeOk \in BOOLEAN : GpuUpdate(writeOk)
    \/ Environment

SpecFrames == Init /\ [][NextFrames]_vars

\* the host's order: frames as above, rebuild only between two frames
NextHost ==
    \/ NextFrames
    \/ frame = "start" /\ \E extent \in Extents : RebuildBegin(extent)
    \/ RebuildStore
    \/ \E ptrOk \in BOOLEAN : RebuildRelock(ptrOk)
    \/ RebuildFinish

SpecHost == Init /\ [][NextHost]_vars

\* the steps CameraGfx takes by itself once an operation has been called
GfxProgress ==
    \/ NewCompute
    \/ \E fail \in Failures : NewFinish(fail)
    \/ \E ptrOk \in BOOLEAN : UpdateBody(ptrOk)
    \/ RebuildStore
    \/ \E ptrOk \in BOOLEAN : RebuildRelock(ptrOk)
    \/ RebuildFinish

\* the operations that take locks, next to other threads that hold a guard
\* on the camera for a while; a thread inside an operation keeps running,
\* and a thread that holds a guard drops it in the end
NextLocks ==
    \/ NewBegin
    \/ UpdateBegin
    \/ \E writeOk \in BOOLEAN : GpuUpdate(writeOk)
    \/ \E extent \in Extents : RebuildBegin(extent)
    \/ GfxProgress
    \/ \E v \in ViewMatrices, f \in Fovxs : CameraWrite(v, f)
    \/ WriterPanics
    \/ \E kind \in {"read", "write"} : OtherAcquire(kind)
    \/ OtherRelease

\* a step of GfxProgress, told by what it does to pc: every step of
\* GfxProgress moves pc and no other step of NextLocks moves it inside an
\* operation; the step is there to take unless the thread waits in rebuild
\* for the read guard while another thread holds the write guard
GfxAdvance ==
    /\ pc \notin {"idle", "panicked"}
    /\ pc = "rebuild_unlocked" => others # "write"
    /\ pc' \in {"new_unlocked", "rebuild_unlocked", "rebuild_rlocked", "idle",
               "panicked"}
    /\ pc' # pc

SpecLocks ==
    Init /\ [][NextLocks]_vars /\ WF_pc(GfxAdvance) /\ WF_others(OtherRelease)

\* frames in order, with rebuild called at any point between the calls
NextRebuildAnywhere ==
    \/ NextFrames
    \/ \E extent \in Extents : RebuildBegin(extent)
    \/ RebuildStore
    \/ \E ptrOk \in BOOLEAN : RebuildRelock(ptrOk)
    \/ RebuildFinish

SpecRebuildAnywhere == Init /\ [][NextRebuildAnywhere]_vars

----------------------------------------------------------------------------
(* Properties. *)

Returned(operation) == op = operation /\ pc = "idle" /\ result = "ok"

\* C1: in a run of frames, the inverse projection that update publishes (and
\* that inv_projection() returns before the frame's gpu_update) is the inverse
\* of the projection the previous frame committed to the buffer, which is the
\* one camera_uniforms held before this update, not the one just computed.
OneFrameLag ==
    /\ Returned("update") =>
           /\ gpu.projection_matrix = prev_uniforms.projection_matrix
           /\ params.inv_projection =
                  Mat4Inverse(prev_uniforms.projection_matrix).value
    /\ (Returned("inv_projection") /\ frame = "updated") =>
           inv_ret = Mat4Inverse(prev_uniforms.projection_matrix).value

OneFrameLagWitness ==
    /\ Returned("update")
    /\ camera_uniforms.projection_matrix # prev_uniforms.projection_matrix
    /\ params.inv_projection # Mat4Inverse(camera_uniforms.projection_matrix).value

\* C2: when rebuild(new_extent) has returned, the shared camera's extent and
\* the extent in the mapped buffer both equal new_extent, whatever another
\* thread wrote to view_matrix and fovx between rebuild's two lock sections.
RebuildStoresExtent ==
    Returned("rebuild") =>
        /\ camera.extent = extent_arg
        /\ gpu.extent = extent_arg

RebuildStoresExtentWitness ==
    /\ Returned("rebuild")
    /\ gpu.extent = extent_arg
    /\ camera_uniforms.extent # extent_arg
    /\ gpu.view_matrix # camera_uniforms.view_matrix

\* C3: between operations, camera_uniforms and the uniforms in the mapped
\* buffer each hold projection_x_view_matrix = projection_matrix * view_matrix.
ProductConsistent ==
    (constructed /\ pc = "idle") =>
        \A u \in {camera_uniforms, gpu} :
            u.projection_x_view_matrix = MatMul(u.projection_matrix, u.view_matrix)

ProductConsistentWitness ==
    /\ constructed
    /\ pc = "idle"
    /\ gpu.view_matrix = ViewTurned
    /\ camera_uniforms.view_matrix = Mat4Identity
    /\ gpu.projection_x_view_matrix # gpu.projection_matrix
    /\ gpu.projection_x_view_matrix = MatMul(gpu.projection_matrix, ViewTurned)

\* C4 as claimed: once constructed, only gpu_update changes the mapped buffer.
OnlyGpuUpdateWritesGpu ==
    [][(constructed /\ gpu' # gpu) => op' = "gpu_update"]_vars

\* C4 as amended: once constructed, only gpu_update and rebuild change the
\* mapped buffer; update, inv_projection and the record_* callbacks never do.
OnlyGpuUpdateOrRebuildWritesGpu ==
    [][(constructed /\ gpu' # gpu) => op' \in {"gpu_update", "rebuild"}]_vars

UpdateLeavesGpuWitness ==
    /\ Returned("update")
    /\ camera_uniforms # prev_uniforms
    /\ gpu = prev_uniforms

NewErrors == {"err_alloc", "err_write", "err_desc"}

\* C6: new derives the uniforms from the camera it reads; when one of its
\* three renderer calls fails it returns that error and builds nothing; an
\* instance comes to exist only by a new that returned Ok, and then the
\* buffer holds exactly the derived camera_uniforms.
ConstructionAllOrNothing ==
    [][/\ pc = "new_rlocked" => camera_uniforms' = CameraUniforms_new(camera)
       /\ (pc = "new_unlocked" /\ pc' = "idle") =>
              IF result' = "ok"
              THEN /\ constructed'
                   /\ camera_uniforms' = camera_uniforms
                   /\ gpu' = camera_uniforms'
              ELSE /\ ~constructed'
                   /\ result' \in NewErrors
       /\ (constructed' /\ ~constructed) =>
              (pc = "new_unlocked" /\ result' = "ok")]_vars

ConstructionFailedWitness ==
    /\ op = "new"
    /\ pc = "idle"
    /\ result = "err_alloc"
    /\ ~constructed

\* the fields CameraUniforms::update assigns
Written(u) ==
    <<u.view_matrix, u.fovx, u.extent, u.camera_position_wspace,
      u.projection_matrix, u.projection_x_view_matrix>>

UpdateOnce(u) == CameraUniforms_update(u, camera, camera_position_wspace)

\* C7: whenever update (or rebuild) applies CameraUniforms::update, applying
\* it again with the same inputs changes nothing, and the fields it writes
\* are the same whatever instance it is applied to.
UpdateIdempotentMemoryless ==
    [][/\ pc = "update_rlocked" =>
              /\ UpdateOnce(camera_uniforms') = camera_uniforms'
              /\ Written(camera_uniforms') = Written(UpdateOnce(gpu))
              /\ Written(camera_uniforms') = Written(UpdateOnce(DefaultUniforms))
       /\ pc = "rebuild_rlocked" =>
              /\ UpdateOnce(gpu') = gpu'
              /\ Written(gpu') = Written(UpdateOnce(camera_uniforms))
              /\ Written(gpu') = Written(UpdateOnce(DefaultUniforms))]_vars

UpdateAfterResizeWitness ==
    /\ Returned("update")
    /\ camera_uniforms.extent # prev_uniforms.extent
    /\ camera_uniforms.projection_matrix # prev_uniforms.projection_matrix

\* C8: an update that returns Ok returns false, and leaves in the Params
\* block the three render_params values and the two light directions
\* multiplied by the view matrix of the camera read in that call.
UpdatePublishesParams ==
    [][(pc = "update_rlocked" /\ result' = "ok") =>
           /\ update_ret' = FALSE
           /\ params'.bloom_strength = render_params'.bloom_strength
           /\ params'.bloom_cliff = render_params'.bloom_cliff
           /\ params'.blur_level = render_params'.blur_level
           /\ params'.dlight_directions[1] = MatVec(camera.view_matrix, light_dir_1)
           /\ params'.dlight_directions[2] = MatVec(camera.view_matrix, light_dir_2)
      ]_vars

UpdatePublishesParamsWitness ==
    /\ Returned("update")
    /\ render_params # DefaultRenderParams
    /\ params.bloom_strength = render_params.bloom_strength
    /\ params.blur_level = R(1)
    /\ update_ret = FALSE

\* the matrix of the claim: d at (0,0), d * aspect at (1,1), -far/(near-far)
\* at (2,2), near*far/(near-far) at (2,3), 1 at (3,2), 0 elsewhere
ClaimedPerspective(fovx_radians, extent) ==
    LET d == RDiv(R(1), TanHalf(fovx_radians))
        aspect == RDiv(R(extent.width), R(extent.height))
        nf == RSub(NEAR_PLANE, FAR_PLANE)
    IN  [i \in 1..4 |-> [j \in 1..4 |->
            CASE i = 1 /\ j = 1 -> d
              [] i = 2 /\ j = 2 -> RMul(d, aspect)
              [] i = 3 /\ j = 3 -> RDiv(RNeg(FAR_PLANE), nf)
              [] i = 3 /\ j = 4 -> RDiv(RMul(NEAR_PLANE, FAR_PLANE), nf)
              [] i = 4 /\ j = 3 -> R(1)
              [] OTHER -> R(0)]]

\* C9: the perspective matrix has the claimed entries for every field of view
\* and aspect ratio, and the projection a CameraUniforms::update stores is
\* that matrix for the fovx and the extent of the camera it was given.
PerspectiveEntries ==
    [][/\ \A f \in Fovxs, e \in Extents :
              perspective_matrix_fov_vulkan(
                  f, RDiv(R(e.width), R(e.height)), NEAR_PLANE, FAR_PLANE)
                  = ClaimedPerspective(f, e)
       /\ pc \in {"new_rlocked", "update_rlocked"} =>
              camera_uniforms'.projection_matrix
                  = ClaimedPerspective(as_radians(camera.fovx), camera.extent)
       /\ pc = "rebuild_rlocked" =>
              gpu'.projection_matrix
                  = ClaimedPerspective(as_radians(camera.fovx), camera.extent)]_vars

PerspectiveEntriesWitness ==
    /\ Returned("update")
    /\ camera_uniforms.fovx = "2*atan(1/2)"
    /\ camera_uniforms.extent = Extent2D(1280, 720)
    /\ camera_uniforms.projection_matrix[1][1] = <<2, 1>>
    /\ camera_uniforms.projection_matrix[2][2] = <<32, 9>>
    /\ camera_uniforms.projection_matrix[3][3] = <<10000, 9999>>
    /\ camera_uniforms.projection_matrix[3][4] = <<-1000, 9999>>

\* C10 as claimed: whenever the mapped buffer is written, CameraGfx holds no
\* lock on the camera.
NoLockDuringGpuWrite ==
    [][gpu' # gpu => lock = "none"]_vars

\* C10 as amended: the write lock is never held while the mapped buffer is
\* written; new and gpu_update write it holding no lock, update does not
\* write it, and rebuild writes it while it holds the read lock.
GpuWriteLockDiscipline ==
    [][gpu' # gpu =>
           \/ lock = "none" /\ pc \in {"new_unlocked", "idle"}
           \/ lock = "read" /\ pc = "rebuild_rlocked"]_vars

RebuildWritesUnderReadLockWitness ==
    /\ pc = "rebuild_rlocked"
    /\ lock = "read"
    /\ UpdateOnce(gpu) # gpu

\* C11: with rebuild called at any point between the calls of a run of
\* frames, the buffer holds, whenever CameraGfx is between two calls, a whole
\* derivation (projection from its own fovx and extent, product from its own
\* projection and view), and after a rebuild or a gpu_update has returned its
\* extent is the resized extent of the camera, not an older one.
RebuildSafeAnywhere ==
    (constructed /\ pc = "idle") =>
        /\ gpu.projection_matrix = ClaimedPerspective(gpu.fovx, gpu.extent)
        /\ gpu.projection_x_view_matrix
               = MatMul(gpu.projection_matrix, gpu.view_matrix)
        /\ (Returned("rebuild") \/ Returned("gpu_update"))
               => gpu.extent = camera.extent

\* C12: no failure aborts an operation or is swallowed: a failed write in
\* gpu_update is returned with camera_uniforms, the camera and the buffer
\* untouched, and update, rebuild and inv_projection end every failure of a
\* lock acquisition, of as_ptr or of the inversion by returning an error to
\* the caller, never by panicking.
FailuresAreReturned ==
    [][/\ (op' = "gpu_update" /\ calls' # calls /\ result' # "ok") =>
              /\ result' = "err_write"
              /\ UNCHANGED <<camera_uniforms, camera, gpu>>
       /\ op' \in {"update", "rebuild", "inv_projection"} =>
              /\ pc' # "panicked"
              /\ result' \notin {"panic_poison", "panic_ptr", "panic_singular"}
      ]_vars

\* a call of operation o by the CameraGfx thread, or one of its later steps
StepOf(o) == op' = o /\ (pc' # pc \/ calls' # calls)

\* C13: rebuild changes only the extent of the shared camera and the mapped
\* buffer (camera_uniforms, camera_position_wspace, render_params and the
\* Params block stay as they were; the light directions are constants);
\* update changes only camera_uniforms and the Params block; gpu_update
\* changes only the mapped buffer.
FrameEffects ==
    [][/\ StepOf("rebuild") =>
              /\ UNCHANGED <<camera_uniforms, camera_position_wspace,
                             render_params, params>>
              /\ camera' = [camera EXCEPT !.extent = camera'.extent]
       /\ StepOf("update") =>
              UNCHANGED <<camera, gpu, camera_position_wspace, render_params>>
       /\ StepOf("gpu_update") =>
              UNCHANGED <<camera, camera_uniforms, camera_position_wspace,
                          render_params, params>>
      ]_vars

FrameEffectsWitness ==
    /\ Returned("rebuild")
    /\ calls = 4
    /\ camera.extent = extent_arg
    /\ gpu.extent = extent_arg
    /\ camera_uniforms.extent # extent_arg
    /\ camera_uniforms # prev_uniforms
    /\ frame = "start"

\* C14: from construction on, camera_position_wspace of camera_uniforms and
\* of the mapped buffer is a position, with w = 1.
PositionIsPoint ==
    constructed =>
        /\ camera_uniforms.camera_position_wspace[4] = R(1)
        /\ gpu.camera_position_wspace[4] = R(1)

\* C15: in every state after construction, camera_uniforms and the mapped
\* buffer both hold ambient = 1.0 and white_level = 0.08, whatever sequence
\* of update, gpu_update and rebuild has run.
ToneScalarsConstant ==
    constructed =>
        /\ camera_uniforms.ambient = R(1)
        /\ camera_uniforms.white_level = Norm(8, 100)
        /\ gpu.ambient = R(1)
        /\ gpu.white_level = Norm(8, 100)

ToneScalarsWitness ==
    /\ Returned("rebuild")
    /\ calls = 4
    /\ frame = "start"
    /\ camera_uniforms # prev_uniforms
    /\ gpu.extent # camera_uniforms.extent
    /\ gpu.camera_position_wspace = camera_uniforms.camera_position_wspace
    /\ gpu.ambient = R(1)
    /\ camera_uniforms.white_level = Norm(8, 100)

\* the three fields a CameraUniforms takes over from the camera
SnapshotOf(u) == <<u.view_matrix, u.fovx, u.extent>>
CameraSnapshot == <<camera.view_matrix, as_radians(camera.fovx), camera.extent>>

\* C16: no writer changes the camera while CameraGfx is inside one of its
\* read sections, and the step of update (or the recompute step of rebuild)
\* that stores view_matrix, fovx and extent runs with the read lock held and
\* stores exactly the fields of that one version of the camera, view_matrix
\* verbatim.
SnapshotConsistent ==
    [][/\ (pc \in {"new_rlocked", "update_rlocked", "rebuild_rlocked"}
               /\ pc' = pc) => camera' = camera
       /\ (pc = "update_rlocked" /\ pc' # pc) =>
              /\ lock = "read"
              /\ SnapshotOf(camera_uniforms') = CameraSnapshot
              /\ camera' = camera
       /\ (pc = "rebuild_rlocked" /\ pc' # pc) =>
              /\ lock = "read"
              /\ SnapshotOf(gpu') = CameraSnapshot
              /\ camera' = camera
      ]_vars

SnapshotConsistentWitness ==
    /\ Returned("update")
    /\ changes = 1
    /\ camera.view_matrix = ViewTurned
    /\ camera.fovx = "2*atan(1/2)"
    /\ SnapshotOf(camera_uniforms) = CameraSnapshot
    /\ SnapshotOf(prev_uniforms) # CameraSnapshot

\* C17: CameraGfx takes a guard on the camera only while it holds none (in
\* rebuild the write guard is dropped before the read guard is taken), it
\* holds no guard between two calls nor after a panic, and, the other
\* threads dropping the guards they hold, every operation that has been
\* called comes to its end.
LockDiscipline ==
    /\ [][(lock' # lock /\ lock' # "none") => lock = "none"]_vars
    /\ [](pc \in {"idle", "panicked", "new_unlocked", "rebuild_unlocked"}
              => lock = "none")
    /\ [](lock = "write" => others = "none")
    /\ [](others = "write" => lock = "none")
    /\ (pc \notin {"idle", "panicked"}) ~> (pc \in {"idle", "panicked"})

LockDisciplineWitness ==
    /\ pc = "rebuild_unlocked"
    /\ op = "rebuild"
    /\ lock = "none"
    /\ others = "write"
    /\ camera.extent = extent_arg
    /\ gpu.extent # extent_arg

\* C18: under the host's order of calls (update, then gpu_update, rebuild
\* only between a gpu_update and the next update), whenever CameraGfx is
\* between two calls the extent in the mapped buffer is the extent of the
\* shared camera.
HostExtentInSync ==
    (constructed /\ pc = "idle") => gpu.extent = camera.extent

HostExtentInSyncWitness ==
    /\ Returned("gpu_update")
    /\ calls = 4
    /\ gpu.extent = camera.extent
    /\ gpu.extent = extent_arg
    /\ prev_uniforms.extent # gpu.extent

\* the fields of a CameraUniforms that are derived from the camera alone
DerivedOf(u) ==
    <<u.view_matrix, u.fovx, u.extent, u.projection_matrix,
      u.projection_x_view_matrix>>
CameraDerivation == DerivedOf(CameraUniforms_new(camera))

\* C19: in a run of frames, a gpu_update that succeeds while the camera is
\* still as the frame's update read it leaves the buffer's view_matrix, fovx,
\* extent, projection and product equal to the derivation from the current
\* camera; once camera_uniforms and the buffer both equal that derivation
\* they stay equal to it for as long as the camera does not change; and an
\* update that starts with the buffer equal to it (any frame after the first
\* such frame) publishes the inverse of the projection derived from the
\* current camera.
Convergence ==
    [][/\ (op' = "gpu_update" /\ calls' # calls /\ result' = "ok"
               /\ SnapshotOf(camera_uniforms) = CameraSnapshot) =>
              DerivedOf(gpu') = CameraDerivation
       /\ (DerivedOf(camera_uniforms) = CameraDerivation
               /\ DerivedOf(gpu) = CameraDerivation /\ camera' = camera) =>
              /\ DerivedOf(camera_uniforms') = CameraDerivation
              /\ DerivedOf(gpu') = CameraDerivation
       /\ (pc = "update_rlocked" /\ pc' = "idle"
               /\ DerivedOf(gpu) = CameraDerivation) =>
              /\ Mat4Inverse(CameraDerivation[4]).some
              /\ params'.inv_projection = Mat4Inverse(CameraDerivation[4]).value
      ]_vars

ConvergenceWitness ==
    /\ Returned("update")
    /\ calls = 4
    /\ changes = 1
    /\ camera.fovx = "2*atan(1/2)"
    /\ DerivedOf(gpu) = CameraDerivation
    /\ DerivedOf(camera_uniforms) = CameraDerivation
    /\ DerivedOf(prev_uniforms) = CameraDerivation
    /\ params.inv_projection = Mat4Inverse(CameraDerivation[4]).value
    /\ params.inv_projection # Mat4Inverse(ClaimedPerspective("pi/2", camera.extent)).value

====
